---- MODULE Spec2Model ----
(***************************************************************************)
(* A model of libscheduler.c: the multi-core scheduling decision engine    *)
(* (scheduler_start_up, scheduler_new_job, scheduler_job_finished,         *)
(* scheduler_quantum_expired) together with the event source that drives   *)
(* it.  Jobs live in a heap of job_t records addressed by allocation       *)
(* order; the priority queue holds addresses of job_t records.             *)
(***************************************************************************)
EXTENDS Integers, Sequences, FiniteSets, TLC

\* Bounds of the model.
MaxCores == 2
MaxJobs == 3
MaxDuration == 3
MaxPriority == 1
MaxTime == 3
MaxId == 3

Schemes == {"FCFS", "SJF", "PSJF", "PRI", "PPRI", "RR"}

\* The null pointer.
NULL == 0

VARIABLES
    sch,            \* scheduler type
    numOfCores,     \* number of cores
    numOfJobs,      \* jobs arrived and not finished
    totalJobs,      \* jobs ever arrived
    job_ptr,        \* head of the job list (an address, or NULL)
    jobs,           \* the heap of job_t records: address -> record
    core_arr,       \* status of each core: 0 idle, 1 busy
    head,           \* the priority queue: a sequence of addresses
    time,           \* the simulator's clock
    executed,       \* per job: time units spent assigned to a core
    waited,         \* per job: time units spent queued without a core
    first_dispatch, \* per job: time of its first dispatch, -1 before it
    finish_time,    \* per job: time its completion was reported, -1 before it
    slice,          \* per job: time units on its core since it last got it
    ret,            \* value returned by the last handler call
    last,           \* the last handler call: its name, job and core
    avg,            \* the last scheduler_average_* call and what it computed
    crashed         \* the process was stopped by a trap

vars == <<sch, numOfCores, numOfJobs, totalJobs, job_ptr, jobs, core_arr, head,
          time, executed, waited, first_dispatch, finish_time, slice, ret, last,
          avg, crashed>>

Range(q) == {q[i] : i \in 1..Len(q)}

\* The sequence m with x added at its end.
Extend(m, x) ==
    [i \in 1..(Len(m) + 1) |-> IF i <= Len(m) THEN m[i] ELSE x]

Min(S) == CHOOSE x \in S : \A y \in S : x <= y

Max(S) == CHOOSE x \in S : \A y \in S : x >= y

Cores == 0..(numOfCores - 1)

----------------------------------------------------------------------------
\* The comparers.

compare1(a, b) == a.id - b.id

\* Fault: the remaining time is left out of the comparison.
compare2_id(a, b) == a.id - b.id

compare2(a, b) ==
    IF a.remaining_time < b.remaining_time THEN -1
    ELSE IF a.remaining_time > b.remaining_time THEN 1
    ELSE a.id - b.id

\* Fault: jobs of equal priority compare equal.
compare3_tie(a, b) ==
    IF a.priority < b.priority THEN -1
    ELSE IF a.priority > b.priority THEN 1
    ELSE 0

compare3(a, b) ==
    IF a.priority < b.priority THEN -1
    ELSE IF a.priority > b.priority THEN 1
    ELSE a.id - b.id

compare4(a, b) == a.turn - b.turn

\* The comparer scheduler_start_up installs in the queue for scheme s.
comparer(s, a, b) ==
    CASE s = "FCFS" -> compare1(a, b)
      [] s \in {"SJF", "PSJF"} -> compare2(a, b)
      [] s \in {"PRI", "PPRI"} -> compare3(a, b)
      [] s = "RR" -> compare4(a, b)
      [] OTHER -> compare1(a, b)

----------------------------------------------------------------------------
\* The priority queue (libpriqueue): a list kept in comparer order by
\* insertion; indices are zero-based as in the C interface.

priqueue_size(q) == Len(q)

priqueue_at(q, i) == q[i + 1]

priqueue_peek(q) == IF Len(q) = 0 THEN NULL ELSE q[1]

\* The index priqueue_offer gives the element at address a: the first
\* position whose element compares greater than it, else the end.
priqueue_index(q, m, a) ==
    LET later == {i \in 0..(Len(q) - 1) : comparer(sch, m[a], m[q[i + 1]]) < 0}
    IN  IF later = {} THEN Len(q) ELSE Min(later)

priqueue_offer(q, m, a) ==
    LET k == priqueue_index(q, m, a)
    IN  SubSeq(q, 1, k) \o <<a>> \o SubSeq(q, k + 1, Len(q))

priqueue_remove_at(q, i) == SubSeq(q, 1, i) \o SubSeq(q, i + 2, Len(q))

----------------------------------------------------------------------------
\* Helpers shared by the handlers.

\* duration - (time - wait_time - arr_time): the time job j still has to run.
remaining(j, t) == j.duration - (t - j.wait_time - j.arr_time)

\* The record scheduler_new_job initialises for an arriving job.
new_record(job_number, t, running_time, priority) ==
    [id |-> job_number, arr_time |-> t, duration |-> running_time,
     priority |-> priority, remaining_time |-> running_time,
     wait_time |-> -1, start_wait |-> -1, response_time |-> -1,
     turnover_time |-> -1, turn |-> -1, core_id |-> -1, next |-> NULL]

\* The node reached from p after n steps along next.  A step from the null
\* pointer, where it does not trap, reads the null pointer again.
RECURSIVE list_walk(_, _, _)
list_walk(m, p, n) ==
    IF n <= 0 \/ p = NULL THEN p ELSE list_walk(m, m[p].next, n - 1)

\* Adds the node at address a to the job list; total is totalJobs after its
\* increment.  Gives the new heap and the new head of the list, and whether
\* the null pointer was dereferenced (fault): the store through it, where it
\* does not trap, links nothing.
list_add(m, jp, job_number, total, a) ==
    IF job_number = 0 THEN [jobs |-> m, job_ptr |-> a, fault |-> FALSE]
    ELSE LET p == IF job_number = 1 THEN jp
                  ELSE list_walk(m, jp, total - 2)
         IN  IF p = NULL
             THEN [jobs |-> m, job_ptr |-> jp, fault |-> TRUE]
             ELSE [jobs |-> [m EXCEPT ![p].next = a], job_ptr |-> jp,
                   fault |-> FALSE]

\* Fault: the remaining time of every queued job is refreshed, on a core or
\* not.
update_queued(m, q, t) ==
    [a \in DOMAIN m |->
        IF a \in Range(q)
        THEN [m[a] EXCEPT !.remaining_time = remaining(m[a], t)]
        ELSE m[a]]

\* Fault: the remaining time of the active jobs is not refreshed.
update_none(m, q, t) == m

\* Refreshes remaining_time of every queued job that is on a core.
update_active(m, q, t) ==
    [a \in DOMAIN m |->
        IF a \in Range(q) /\ m[a].core_id # -1
        THEN [m[a] EXCEPT !.remaining_time = remaining(m[a], t)]
        ELSE m[a]]

\* Fault: the scan for an idle core keeps the last one it sees.
last_idle(ca) ==
    LET idle == {i \in DOMAIN ca : ca[i] = 0}
    IN  IF idle = {} THEN -1 ELSE Max(idle)

\* The lowest-indexed idle core, -1 when every core is busy.
first_idle(ca) ==
    LET idle == {i \in DOMAIN ca : ca[i] = 0}
    IN  IF idle = {} THEN -1 ELSE Min(idle)

\* Fault: the scan for the job to preempt runs from the front of the queue.
first_active(q, m) ==
    LET act == {i \in 0..(Len(q) - 1) : m[q[i + 1]].core_id # -1}
    IN  IF act = {} THEN -1 ELSE Min(act)

\* The queue index of the last job that is on a core, -1 when there is none.
last_active(q, m) ==
    LET act == {i \in 0..(Len(q) - 1) : m[q[i + 1]].core_id # -1}
    IN  IF act = {} THEN -1 ELSE Max(act)

\* Fault: the scan for the next job to run keeps the last inactive job.
last_inactive(q, m) ==
    LET ina == {i \in 0..(Len(q) - 1) : m[q[i + 1]].core_id = -1}
    IN  IF ina = {} THEN -1 ELSE Max(ina)

\* The queue index of the first job that is on no core, -1 when there is none.
next_inactive(q, m) ==
    LET ina == {i \in 0..(Len(q) - 1) : m[q[i + 1]].core_id = -1}
    IN  IF ina = {} THEN -1 ELSE Min(ina)

\* The queue index of the first job that is on the given core, -1 when none.
on_core(q, m, core) ==
    LET at == {i \in 0..(Len(q) - 1) : m[q[i + 1]].core_id = core}
    IN  IF at = {} THEN -1 ELSE Min(at)

\* Fault: the turns are left as they are.
renumber_none(m, q) == m

\* Sets every queued job's turn to its queue index.
renumber(m, q) ==
    [a \in DOMAIN m |->
        IF a \in Range(q)
        THEN [m[a] EXCEPT !.turn = Max({i \in 0..(Len(q) - 1) : q[i + 1] = a})]
        ELSE m[a]]

\* Fault: every preempted job goes back to its default values.
reset_always(j) ==
    [j EXCEPT !.response_time = -1, !.start_wait = -1, !.wait_time = -1]

\* Fault: the reset leaves wait_time and start_wait as they are.
reset_response(j) ==
    IF j.remaining_time = j.duration
    THEN [j EXCEPT !.response_time = -1]
    ELSE j

\* A job that has not run any cycle goes back to its default values.
reset_unstarted(j) ==
    IF j.remaining_time = j.duration
    THEN [j EXCEPT !.response_time = -1, !.start_wait = -1, !.wait_time = -1]
    ELSE j

\* Fault: the preempted job keeps its core.
preempted_on_core(j, t) ==
    reset_unstarted([j EXCEPT !.start_wait = t,
                              !.remaining_time = remaining(j, t)])

\* The job taken off its core by a preempting arrival at time t.
preempted(j, t) ==
    reset_unstarted([j EXCEPT !.core_id = -1, !.start_wait = t,
                              !.remaining_time = remaining(j, t)])

\* Fault: the time waited since the last preemption is not added.
started_no_wait(j, core, t) ==
    LET j1 == IF j.response_time = -1
              THEN [j EXCEPT !.response_time = t - j.arr_time,
                             !.wait_time = t - j.arr_time]
              ELSE j
    IN  [j1 EXCEPT !.core_id = core, !.start_wait = -1]

\* The fields of a job that is put on a core at time t.
started(j, core, t) ==
    LET j1 == IF j.response_time = -1
              THEN [j EXCEPT !.response_time = t - j.arr_time,
                             !.wait_time = t - j.arr_time]
              ELSE j
        j2 == IF j1.start_wait # -1
              THEN [j1 EXCEPT !.wait_time = j1.wait_time + (t - j1.start_wait),
                              !.start_wait = -1]
              ELSE j1
    IN  [j2 EXCEPT !.core_id = core]

\* Fault: the core is not marked busy again.
dispatch_unmarked(m, q, ca, core, t) ==
    LET i == next_inactive(q, m)
    IN  IF priqueue_peek(q) = NULL \/ i = -1
        THEN [jobs |-> m, core_arr |-> ca, ret |-> -1]
        ELSE LET a == priqueue_at(q, i)
             IN  [jobs |-> [m EXCEPT ![a] = started(m[a], core, t)],
                  core_arr |-> ca,
                  ret |-> m[a].id]

\* Fault: only the first job of the queue is considered.
dispatch_peek(m, q, ca, core, t) ==
    IF priqueue_peek(q) = NULL \/ m[priqueue_peek(q)].core_id # -1
    THEN [jobs |-> m, core_arr |-> ca, ret |-> -1]
    ELSE LET a == priqueue_peek(q)
         IN  [jobs |-> [m EXCEPT ![a] = started(m[a], core, t)],
              core_arr |-> [ca EXCEPT ![core] = 1],
              ret |-> m[a].id]

\* Gives the core to the next inactive job of the queue, if there is one.
dispatch(m, q, ca, core, t) ==
    LET i == next_inactive(q, m)
    IN  IF priqueue_peek(q) = NULL \/ i = -1
        THEN [jobs |-> m, core_arr |-> ca, ret |-> -1]
        ELSE LET a == priqueue_at(q, i)
             IN  [jobs |-> [m EXCEPT ![a] = started(m[a], core, t)],
                  core_arr |-> [ca EXCEPT ![core] = 1],
                  ret |-> m[a].id]

----------------------------------------------------------------------------
\* scheduler_new_job, in the three steps that follow the registration of the
\* job.  Each step maps a record s of the handler's working state
\* (jobs, head, core_arr, new_core_id, scheduled) to the next one.

\* Step 1: an idle core takes the new job (address a).
assign_idle(s, a) ==
    LET i == first_idle(s.core_arr)
    IN  IF i = -1 THEN s
        ELSE LET m1 == [s.jobs EXCEPT ![a] =
                          [@ EXCEPT !.core_id = i, !.wait_time = 0,
                                    !.response_time = 0,
                                    !.turn = IF sch = "RR"
                                             THEN priqueue_size(s.head)
                                             ELSE @]]
             IN  [jobs |-> m1,
                  head |-> priqueue_offer(s.head, m1, a),
                  core_arr |-> [s.core_arr EXCEPT ![i] = 1],
                  new_core_id |-> i,
                  scheduled |-> 1]

\* Fault: PRI is treated as a preemptive scheme.
preemptive_pri == sch = "PSJF" \/ sch = "PPRI" \/ sch = "PRI"

\* The schemes under which an arrival may take a busy core.
preemptive == sch = "PSJF" \/ sch = "PPRI"

\* Step 2: under a preemptive scheme the new job is queued, and takes the core
\* of the last active job of the queue when its own index is below the number
\* of cores.
preempt(s, a, t) ==
    IF ~(s.scheduled = 0 /\ preemptive) THEN s
    ELSE LET index == priqueue_index(s.head, s.jobs, a)
             q1 == priqueue_offer(s.head, s.jobs, a)
             v == last_active(q1, s.jobs)
         IN  IF index < numOfCores
             THEN IF v = -1
                  THEN [s EXCEPT !.head = q1,
                                 !.jobs = [s.jobs EXCEPT ![a] =
                                    [@ EXCEPT !.core_id = s.new_core_id,
                                              !.wait_time = 0,
                                              !.response_time = 0]],
                                 !.scheduled = 1]
                  ELSE LET b == priqueue_at(q1, v)
                           c == s.jobs[b].core_id
                       IN  [jobs |-> [s.jobs EXCEPT
                                        ![b] = preempted(s.jobs[b], t),
                                        ![a] = [@ EXCEPT !.core_id = c,
                                                         !.wait_time = 0,
                                                         !.response_time = 0]],
                            head |-> q1,
                            core_arr |-> [s.core_arr EXCEPT ![c] = 1],
                            new_core_id |-> c,
                            scheduled |-> 1]
             ELSE [s EXCEPT !.head = q1]

\* Fault: the plain insertion is not restricted to the schemes that have not
\* queued the job yet.
enqueue_always(s, a) ==
    IF ~(s.scheduled = 0) THEN s
    ELSE LET m1 == [s.jobs EXCEPT ![a].turn =
                      IF sch = "RR" THEN priqueue_size(s.head) ELSE @]
         IN  [s EXCEPT !.jobs = m1, !.head = priqueue_offer(s.head, m1, a)]

\* Step 3: under the other schemes a job that got no core is just queued.
enqueue(s, a) ==
    IF ~(s.scheduled = 0 /\ sch # "PSJF" /\ sch # "PPRI") THEN s
    ELSE LET m1 == [s.jobs EXCEPT ![a].turn =
                      IF sch = "RR" THEN priqueue_size(s.head) ELSE @]
         IN  [s EXCEPT !.jobs = m1, !.head = priqueue_offer(s.head, m1, a)]

\* The whole handler: the state it leaves and the value it returns.
scheduler_new_job(job_number, t, running_time, priority) ==
    LET a == Len(jobs) + 1
        l == list_add(Extend(jobs, new_record(job_number, t, running_time,
                                              priority)),
                      job_ptr, job_number, totalJobs + 1, a)
        s0 == [jobs |-> update_active(l.jobs, head, t), head |-> head,
               core_arr |-> core_arr, new_core_id |-> -1, scheduled |-> 0]
        s3 == enqueue(preempt(assign_idle(s0, a), a, t), a)
    IN  [jobs |-> s3.jobs, job_ptr |-> l.job_ptr, head |-> s3.head,
         core_arr |-> s3.core_arr, ret |-> s3.new_core_id, fault |-> l.fault]

----------------------------------------------------------------------------
\* scheduler_job_finished.

\* Fault: the arrival time is not subtracted.
finished_abs(j, t) ==
    [j EXCEPT !.turnover_time = t,
              !.remaining_time = remaining(j, t),
              !.core_id = -1,
              !.turn = IF sch = "RR" THEN -1 ELSE @]

\* The finished job's fields at the moment it leaves the queue.
finished(j, t) ==
    [j EXCEPT !.turnover_time = t - j.arr_time,
              !.remaining_time = remaining(j, t),
              !.core_id = -1,
              !.turn = IF sch = "RR" THEN -1 ELSE @]

\* The loop that finds the finished job in the queue and removes it.
RECURSIVE remove_finished(_, _, _, _, _)
remove_finished(i, q, m, job_number, t) ==
    IF i >= priqueue_size(q) THEN [head |-> q, jobs |-> m]
    ELSE LET a == priqueue_at(q, i)
         IN  IF m[a].id = job_number
             THEN remove_finished(i + 1, priqueue_remove_at(q, i),
                                  [m EXCEPT ![a] = finished(m[a], t)],
                                  job_number, t)
             ELSE remove_finished(i + 1, q, m, job_number, t)

scheduler_job_finished(core_id, job_number, t) ==
    LET ca == [core_arr EXCEPT ![core_id] = 0]
        r == remove_finished(0, head, jobs, job_number, t)
        m1 == IF sch = "RR" THEN renumber(r.jobs, r.head) ELSE r.jobs
        d == dispatch(m1, r.head, ca, core_id, t)
    IN  [jobs |-> d.jobs, head |-> r.head, core_arr |-> d.core_arr,
         ret |-> d.ret]

----------------------------------------------------------------------------
\* scheduler_quantum_expired, for a core that runs a job.

\* Fault: the expired job is requeued without giving up its core.
expired_on_core(j, t, size) ==
    [j EXCEPT !.start_wait = t,
              !.remaining_time = remaining(j, t), !.turn = size]

\* The expired job's fields when it is requeued; size is the queue's size
\* after its removal.
expired(j, t, size) ==
    [j EXCEPT !.core_id = -1, !.start_wait = t,
              !.remaining_time = remaining(j, t), !.turn = size]

scheduler_quantum_expired(core_id, t) ==
    LET i == on_core(head, jobs, core_id)
        a == priqueue_at(head, i)
        q1 == priqueue_remove_at(head, i)
        m1 == [jobs EXCEPT ![a] = expired(jobs[a], t, priqueue_size(q1))]
        m2 == renumber(m1, q1)
        q2 == priqueue_offer(q1, m2, a)
        d == dispatch(m2, q2, [core_arr EXCEPT ![core_id] = -1], core_id, t)
    IN  [jobs |-> d.jobs, head |-> q2, core_arr |-> d.core_arr, ret |-> d.ret]

----------------------------------------------------------------------------
\* The event source and the state machine.

Addrs == DOMAIN jobs

Queued(a) == a \in Range(head)

Running(a) == Queued(a) /\ jobs[a].core_id # -1

Waiting(a) == Queued(a) /\ jobs[a].core_id = -1

\* A running job that has executed for its whole duration: the simulator
\* reports its completion before the clock moves on.
Due(a) == Running(a) /\ executed[a] = jobs[a].duration

\* slice after a handler call that leaves the heap m behind: a job that was
\* given a core by the call starts a new slice.
Sliced(m) ==
    [a \in DOMAIN m |->
        IF a \in DOMAIN jobs /\ m[a].core_id = jobs[a].core_id
        THEN slice[a] ELSE 0]

\* first_dispatch after a handler call that leaves the heap m behind.
Dispatched(m, fd) ==
    [a \in DOMAIN m |->
        IF a \in DOMAIN fd /\ fd[a] # -1 THEN fd[a]
        ELSE IF m[a].core_id # -1 THEN time ELSE -1]

\* scheduler_start_up(cores, scheme)
Init ==
    /\ sch \in Schemes
    /\ numOfCores \in 1..MaxCores
    /\ numOfJobs = 0
    /\ totalJobs = 0
    /\ job_ptr = NULL
    /\ jobs = <<>>
    /\ core_arr = [i \in 0..(numOfCores - 1) |-> 0]
    /\ head = <<>>
    /\ time = 0
    /\ executed = <<>>
    /\ waited = <<>>
    /\ first_dispatch = <<>>
    /\ finish_time = <<>>
    /\ slice = <<>>
    /\ ret = -1
    /\ last = [op |-> "start_up", job |-> NULL, core |-> -1]
    /\ avg = [op |-> "none", sum |-> 0, count |-> 0, result |-> "none"]
    /\ crashed = FALSE

\* The priorities the event source draws from: the priority is read only
\* by the comparer of PRI and PPRI.
Priorities == IF sch \in {"PRI", "PPRI"} THEN 0..MaxPriority ELSE {0}

\* A job arrives: ids follow the arrival order, arrival times are unique, and
\* the completions due at this time have been reported.
NewJob ==
    /\ totalJobs < MaxJobs
    /\ \A b \in Addrs : ~Due(b)
    /\ IF totalJobs = 0 THEN TRUE ELSE jobs[Len(jobs)].arr_time < time
    /\ \E running_time \in 1..MaxDuration, priority \in Priorities :
         \E r \in {scheduler_new_job(totalJobs, time, running_time, priority)} :
             /\ jobs' = r.jobs
             /\ job_ptr' = r.job_ptr
             /\ head' = r.head
             /\ core_arr' = r.core_arr
             /\ ret' = r.ret
             /\ first_dispatch' = Dispatched(r.jobs, first_dispatch)
             /\ slice' = Sliced(r.jobs)
    /\ numOfJobs' = numOfJobs + 1
    /\ totalJobs' = totalJobs + 1
    /\ executed' = Extend(executed, 0)
    /\ waited' = Extend(waited, 0)
    /\ finish_time' = Extend(finish_time, -1)
    /\ last' = [op |-> "new_job", job |-> Len(jobs) + 1, core |-> -1]
    /\ UNCHANGED <<sch, numOfCores, time, avg, crashed>>

\* The job on a core has run for its duration: its completion is reported.
JobFinished ==
    \E a \in Addrs :
        /\ Due(a)
        /\ \E r \in {scheduler_job_finished(jobs[a].core_id, jobs[a].id, time)} :
               /\ jobs' = r.jobs
               /\ head' = r.head
               /\ core_arr' = r.core_arr
               /\ ret' = r.ret
               /\ first_dispatch' = Dispatched(r.jobs, first_dispatch)
               /\ slice' = Sliced(r.jobs)
        /\ numOfJobs' = numOfJobs - 1
        /\ finish_time' = [finish_time EXCEPT ![a] = time]
        /\ last' = [op |-> "job_finished", job |-> a, core |-> jobs[a].core_id]
        /\ UNCHANGED <<sch, numOfCores, totalJobs, job_ptr, time, executed,
                       waited, avg, crashed>>

\* Under RR the quantum timer expires on a core whose job has run for at
\* least one time unit since it got the core and is not finished.
QuantumExpired ==
    /\ sch = "RR"
    /\ \E a \in Addrs :
        /\ Running(a)
        /\ \A b \in Addrs : ~Due(b)
        /\ slice[a] > 0
        /\ \E r \in {scheduler_quantum_expired(jobs[a].core_id, time)} :
               /\ jobs' = r.jobs
               /\ head' = r.head
               /\ core_arr' = r.core_arr
               /\ ret' = r.ret
               /\ first_dispatch' = Dispatched(r.jobs, first_dispatch)
               /\ slice' = [Sliced(r.jobs) EXCEPT ![a] = 0]
        /\ last' = [op |-> "quantum_expired", job |-> a,
                    core |-> jobs[a].core_id]
        /\ UNCHANGED <<sch, numOfCores, numOfJobs, totalJobs, job_ptr, time,
                       executed, waited, finish_time, avg, crashed>>

\* One time unit passes: running jobs execute, waiting jobs wait.  The clock
\* stands still while no job is in the system: every handler reads the clock
\* only as a difference to a time stored in a queued job, so an idle period
\* shifts what follows it and changes nothing else.
Tick ==
    /\ time < MaxTime
    /\ numOfJobs > 0
    /\ \A a \in Addrs : ~Due(a)
    /\ time' = time + 1
    /\ executed' = [a \in Addrs |->
                      IF Running(a) THEN executed[a] + 1 ELSE executed[a]]
    /\ waited' = [a \in Addrs |->
                    IF Waiting(a) THEN waited[a] + 1 ELSE waited[a]]
    /\ slice' = [a \in Addrs |->
                   IF Running(a) THEN slice[a] + 1 ELSE slice[a]]
    /\ ret' = -1
    /\ last' = [op |-> "tick", job |-> NULL, core |-> -1]
    /\ UNCHANGED <<sch, numOfCores, numOfJobs, totalJobs, job_ptr, jobs,
                   core_arr, head, first_dispatch, finish_time, avg, crashed>>

Next == NewJob \/ JobFinished \/ QuantumExpired \/ Tick

Spec == Init /\ [][Next]_vars

----------------------------------------------------------------------------
\* The statistics, and an event source that numbers the jobs as it likes.

\* The loop of scheduler_average_*: adds one field over n nodes of the job
\* list, starting at p.  A read through the null pointer, where it does not
\* trap, reads 0.
RECURSIVE list_sum(_, _, _, _)
list_sum(m, p, n, field) ==
    IF n <= 0 THEN [sum |-> 0, null_deref |-> FALSE]
    ELSE IF p = NULL THEN [sum |-> 0, null_deref |-> TRUE]
    ELSE LET r == list_sum(m, m[p].next, n - 1, field)
         IN  [sum |-> m[p][field] + r.sum, null_deref |-> r.null_deref]

\* What an average function computes: the dividend and the divisor of its
\* float division, and whether its loop went through the null pointer.
average(field) ==
    LET r == list_sum(jobs, job_ptr, totalJobs, field)
    IN  [sum |-> r.sum, count |-> totalJobs, null_deref |-> r.null_deref]

scheduler_average_waiting_time == average("wait_time")

scheduler_average_turnaround_time == average("turnover_time")

scheduler_average_response_time == average("response_time")

\* A call of an average function once all scheduling is complete.  A
\* dereference of the null pointer and a division by zero are undefined: the
\* call traps, or it goes on and returns the quotient, which for 0/0 is a NaN.
Average(op, r) ==
    /\ numOfJobs = 0
    /\ \E outcome \in (IF r.null_deref \/ r.count = 0
                       THEN {"trap", "value"} ELSE {"value"}) :
         /\ crashed' = (outcome = "trap")
         /\ avg' = [op |-> op, sum |-> r.sum, count |-> r.count,
                    result |-> IF outcome = "trap" THEN "trap"
                               ELSE IF r.count = 0 THEN "nan"
                               ELSE "quotient"]
    /\ last' = [op |-> op, job |-> NULL, core |-> -1]
    /\ UNCHANGED <<sch, numOfCores, numOfJobs, totalJobs, job_ptr, jobs,
                   core_arr, head, time, executed, waited, first_dispatch,
                   finish_time, slice, ret>>

AverageWaitingTime ==
    Average("average_waiting_time", scheduler_average_waiting_time)

AverageTurnaroundTime ==
    Average("average_turnaround_time", scheduler_average_turnaround_time)

AverageResponseTime ==
    Average("average_response_time", scheduler_average_response_time)

\* The ids the next arrival may carry: any id above the last one.
NextIds ==
    {n \in 0..MaxId : totalJobs = 0 \/ n > jobs[Len(jobs)].id}

\* A job arrives with an id above every earlier id.  When the handler
\* dereferences the null pointer it traps, after it has counted the job, or
\* it goes on.
Arrival ==
    /\ totalJobs < MaxJobs
    /\ \A b \in Addrs : ~Due(b)
    /\ IF totalJobs = 0 THEN TRUE ELSE jobs[Len(jobs)].arr_time < time
    /\ \E job_number \in NextIds, running_time \in 1..MaxDuration,
          priority \in Priorities :
         \E r \in {scheduler_new_job(job_number, time, running_time,
                                     priority)} :
           \E outcome \in (IF r.fault THEN {"trap", "stray"} ELSE {"done"}) :
             IF outcome = "trap"
             THEN /\ crashed' = TRUE
                  /\ last' = [op |-> "new_job", job |-> NULL, core |-> -1]
                  /\ UNCHANGED <<jobs, job_ptr, head, core_arr, ret,
                                 first_dispatch, slice, executed, waited,
                                 finish_time>>
             ELSE /\ jobs' = r.jobs
                  /\ job_ptr' = r.job_ptr
                  /\ head' = r.head
                  /\ core_arr' = r.core_arr
                  /\ ret' = r.ret
                  /\ first_dispatch' = Dispatched(r.jobs, first_dispatch)
                  /\ slice' = Sliced(r.jobs)
                  /\ executed' = Extend(executed, 0)
                  /\ waited' = Extend(waited, 0)
                  /\ finish_time' = Extend(finish_time, -1)
                  /\ last' = [op |-> "new_job", job |-> Len(jobs) + 1,
                              core |-> -1]
                  /\ UNCHANGED crashed
    /\ numOfJobs' = numOfJobs + 1
    /\ totalJobs' = totalJobs + 1
    /\ UNCHANGED <<sch, numOfCores, time, avg>>

\* Scheduling goes on until the first call of an average function, and
\* nothing follows a trap.
Scheduling == ~crashed /\ avg.op = "none"

RunArrival == Scheduling /\ Arrival

RunJobFinished == Scheduling /\ JobFinished

RunQuantumExpired == Scheduling /\ QuantumExpired

RunTick == Scheduling /\ Tick

RunAverageWaitingTime == ~crashed /\ AverageWaitingTime

RunAverageTurnaroundTime == ~crashed /\ AverageTurnaroundTime

RunAverageResponseTime == ~crashed /\ AverageResponseTime

NextRuns ==
    \/ RunArrival
    \/ RunJobFinished
    \/ RunQuantumExpired
    \/ RunTick
    \/ RunAverageWaitingTime
    \/ RunAverageTurnaroundTime
    \/ RunAverageResponseTime

SpecRuns == Init /\ [][NextRuns]_vars

----------------------------------------------------------------------------
\* Vocabulary of the properties.

\* The steps of the three handlers, told apart by what only they change.
NewJobStep == totalJobs' = totalJobs + 1

FinishedStep == numOfJobs' = numOfJobs - 1

QuantumStep ==
    /\ last'.op = "quantum_expired"
    /\ totalJobs' = totalJobs
    /\ numOfJobs' = numOfJobs
    /\ time' = time

\* The address the next arriving job gets.
NewAddr == Len(jobs) + 1

\* The queued jobs on a core, and those on none.
RunningSet == {a \in Addrs : Running(a)}

WaitingSet == {a \in Addrs : Waiting(a)}

\* The waiting jobs in queue order.
WaitingSeq == SelectSeq(head, LAMBDA b : jobs[b].core_id = -1)

\* The key the policy orders a job by: j is its record and done the time it
\* has executed so far.
PolicyKey(j, done) ==
    CASE sch \in {"SJF", "PSJF"} -> j.duration - done
      [] sch \in {"PRI", "PPRI"} -> j.priority
      [] OTHER -> 0

\* Job j (executed for dj) ranks ahead of job k (executed for dk): smaller key,
\* ties by lower id.
RanksAhead(j, dj, k, dk) ==
    \/ PolicyKey(j, dj) < PolicyKey(k, dk)
    \/ PolicyKey(j, dj) = PolicyKey(k, dk) /\ j.id < k.id

\* Queued job a ranks ahead of queued job b.
Ahead(a, b) == RanksAhead(jobs[a], executed[a], jobs[b], executed[b])

----------------------------------------------------------------------------
\* What C1 requires of one step.
C1_Step ==
    sch \in {"FCFS", "SJF", "PRI"} =>
      \A a \in RunningSet :
          \/ finish_time'[a] # -1
          \/ /\ jobs'[a].core_id = jobs[a].core_id
             /\ a \in Range(head')
             /\ \A b \in Range(head') \ {a} :
                  jobs'[b].core_id # jobs[a].core_id

\* C1: under FCFS, SJF and PRI a job that is on a core keeps that core, and no
\* other job is put on that core, in every step except the step that reports
\* the job's own completion; an arrival never takes a busy core.
C1_NoPreemption == [][C1_Step]_vars

\* C1 witness: under PRI an arrival with a better priority than a running job
\* has been left waiting.
C1_Witness ==
    /\ sch = "PRI"
    /\ last.op = "new_job"
    /\ ret = -1
    /\ Waiting(last.job)
    /\ \E a \in RunningSet : jobs[last.job].priority < jobs[a].priority

\* What C2 requires of one step.
C2_Step ==
    (/\ NewJobStep
      /\ sch \in {"PSJF", "PPRI"}
      /\ \A c \in Cores : core_arr[c] # 0) =>
      LET n == jobs'[NewAddr]
          beats(b) == RanksAhead(n, 0, jobs[b], executed[b])
      IN  IF \E b \in RunningSet : beats(b)
          THEN \E v \in RunningSet :
                  /\ \A b \in RunningSet \ {v} : Ahead(b, v)
                  /\ ret' = jobs[v].core_id
                  /\ ret' # -1
                  /\ n.core_id = ret'
                  /\ jobs'[v].core_id = -1
                  /\ v \in Range(head')
                  /\ \A b \in RunningSet \ {v} :
                       jobs'[b].core_id = jobs[b].core_id
          ELSE /\ ret' = -1
               /\ n.core_id = -1
               /\ NewAddr \in Range(head')
               /\ \A b \in RunningSet :
                    jobs'[b].core_id = jobs[b].core_id

\* C2: under PSJF and PPRI an arrival that finds every core busy takes a core
\* exactly when it ranks ahead of some running job (remaining time or
\* priority, ties by id); the job that loses its core is the running job
\* ranked last, and its core is the value returned; otherwise -1 is returned
\* and the arrival waits in the queue.
C2_Preemption == [][C2_Step]_vars

\* C2 witness: with two cores an arrival has taken the core of one of two
\* running jobs, and the other one still runs.
C2_Witness ==
    /\ sch \in {"PSJF", "PPRI"}
    /\ numOfCores = 2
    /\ last.op = "new_job"
    /\ ret # -1
    /\ jobs[last.job].core_id = ret
    /\ \E v \in WaitingSet : first_dispatch[v] # -1
    /\ \E b \in RunningSet : b # last.job

\* What C3 requires of one step.
C3_Step ==
    (NewJobStep /\ \E c \in Cores : core_arr[c] = 0) =>
      LET c == Min({d \in Cores : core_arr[d] = 0})
          n == jobs'[NewAddr]
      IN  /\ ret' = c
          /\ n.core_id = c
          /\ n.wait_time = 0
          /\ n.response_time = 0
          /\ core_arr' = [core_arr EXCEPT ![c] = 1]
          /\ NewAddr \in Range(head')
          /\ \A b \in Addrs : jobs'[b].core_id = jobs[b].core_id

\* C3: an arrival that finds an idle core gets the lowest-indexed idle core:
\* the core is marked busy and returned, the job's wait_time and response_time
\* are 0, and no other job changes core.
C3_IdleCore == [][C3_Step]_vars

\* C3 witness: with core 0 busy and core 1 idle an arrival got core 1, and
\* with both idle an earlier one got core 0.
C3_Witness ==
    /\ numOfCores = 2
    /\ last.op = "new_job"
    /\ ret = 1
    /\ jobs[last.job].core_id = 1
    /\ \E b \in RunningSet : jobs[b].core_id = 0

\* What C4 requires of one step.
C4_Step ==
    FinishedStep =>
      LET f == last'.job
          c == last'.core
          W == WaitingSet
          first(b) ==
              IF sch = "RR" THEN b = WaitingSeq[1]
              ELSE IF sch = "SJF" THEN TRUE
              ELSE \A w \in W \ {b} : Ahead(b, w)
      IN  /\ f \notin Range(head')
          /\ (ret' = -1) <=> (W = {})
          /\ W = {} => core_arr'[c] = 0
          /\ W # {} =>
               \E b \in W :
                  /\ first(b)
                  /\ ret' = jobs[b].id
                  /\ jobs'[b].core_id = c
                  /\ core_arr'[c] = 1
          /\ \A b \in Range(head') :
               jobs'[b].core_id # jobs[b].core_id => jobs[b].id = ret'

\* C4: a completion returns -1 and leaves the core idle exactly when no queued
\* job waits; otherwise it returns the id of the waiting job that is first in
\* the policy order (FCFS: lowest id; PRI, PPRI: priority then id; PSJF:
\* remaining time then id; RR: queue order) and puts exactly that job on the
\* core.
C4_Finished == [][C4_Step]_vars

\* C4 witness: a completion chose between two waiting jobs and took the one
\* that arrived later.
C4_Witness ==
    /\ last.op = "job_finished"
    /\ ret # -1
    /\ sch # "SJF"
    /\ \E b \in RunningSet, w \in WaitingSet :
         /\ jobs[b].id = ret
         /\ jobs[b].core_id = last.core
         /\ jobs[w].id < ret

\* What C5 requires of one step.
C5_Step ==
    (FinishedStep /\ sch = "SJF" /\ ret' # -1) =>
      \E b \in WaitingSet :
          /\ jobs[b].id = ret'
          /\ jobs'[b].core_id = last'.core
          /\ \A w \in WaitingSet \ {b} :
               \/ jobs[b].duration < jobs[w].duration
               \/ /\ jobs[b].duration = jobs[w].duration
                  /\ jobs[b].id < jobs[w].id

\* C5: under SJF the job a completion dispatches has the smallest duration
\* among the jobs waiting at that moment, ties by lower id.
C5_ShortestFirst == [][C5_Step]_vars

\* C5 witness: under SJF a completion dispatched a shorter job that arrived
\* after a longer one still waiting, while the finished job was running.
C5_Witness ==
    /\ sch = "SJF"
    /\ last.op = "job_finished"
    /\ \E b \in RunningSet, w \in WaitingSet :
         /\ jobs[b].id = ret
         /\ jobs[w].id < ret
         /\ jobs[b].duration < jobs[w].duration
         /\ jobs[b].arr_time < finish_time[last.job]

\* What C6 requires of one step.
C6_Step ==
    QuantumStep =>
      LET e == last'.job
          c == last'.core
      IN  /\ ret' # -1
          /\ core_arr'[c] = 1
          /\ IF WaitingSet # {}
             THEN /\ ret' = jobs[WaitingSeq[1]].id
                  /\ ret' # jobs[e].id
                  /\ jobs'[WaitingSeq[1]].core_id = c
                  /\ jobs'[e].core_id = -1
             ELSE /\ ret' = jobs[e].id
                  /\ jobs'[e].core_id = c

\* C6: under RR a quantum expiry on a core that runs a job never returns -1:
\* it returns the first waiting job in queue order, put on that core, which
\* is not the expired job when another job waits and is the expired job
\* itself when none does.
C6_QuantumExpired == [][C6_Step]_vars

\* C6 witness: a quantum expiry handed the core to another job and the expired
\* job waits.
C6_Witness ==
    /\ last.op = "quantum_expired"
    /\ ret # -1
    /\ ret # jobs[last.job].id
    /\ Waiting(last.job)
    /\ \E b \in RunningSet : jobs[b].id = ret /\ jobs[b].core_id = last.core

\* The response_time a job had before the step; -1 for the job that arrives in
\* the step.
response_before(a) == IF a \in Addrs THEN jobs[a].response_time ELSE -1

\* What the original statement of C7 requires of one step.
C7_Original_Step ==
    \A a \in DOMAIN jobs' :
        /\ response_before(a) # -1 =>
             jobs'[a].response_time = response_before(a)
        /\ (response_before(a) = -1 /\ jobs'[a].response_time # -1) =>
             /\ jobs'[a].response_time = first_dispatch'[a] - jobs'[a].arr_time
             /\ jobs'[a].response_time >= 0

\* C7 as stated: response_time is set exactly once, at the job's first
\* dispatch, to that dispatch's time minus the arrival time, which is at least
\* 0, and no later step changes it.
C7_Original == [][C7_Original_Step]_vars

\* What the amended C7 requires of one step.
C7_Step ==
    \A a \in DOMAIN jobs' :
        LET old == response_before(a)
            new == jobs'[a].response_time
            dispatched == /\ jobs'[a].core_id # -1
                          /\ a \in Addrs => jobs[a].core_id = -1
            unstarted == /\ NewJobStep
                         /\ a \in RunningSet
                         /\ jobs'[a].core_id = -1
                         /\ executed[a] = 0
        IN  /\ \/ new = old
               \/ /\ old = -1
                  /\ dispatched
                  /\ new = time' - jobs'[a].arr_time
                  /\ new >= 0
               \/ /\ old # -1
                  /\ new = -1
                  /\ unstarted
                  /\ sch \in {"PSJF", "PPRI"}
                  /\ jobs'[NewAddr].core_id = jobs[a].core_id
            /\ (dispatched /\ old = -1) => new # -1
            /\ unstarted => new = -1

\* C7 (amended): response_time is unset until a dispatch; a dispatch of a job
\* whose response_time is unset sets it to the time of that dispatch minus the
\* arrival time, which is at least 0; a set value changes in one case only:
\* an arrival under PSJF or PPRI that takes the core of a job that has not
\* executed any time unit resets it to -1, so that the next dispatch sets it
\* again.  Completion, quantum expiry and the preemption of a job that has
\* executed leave it as it is.
C7_ResponseTime == [][C7_Step]_vars

\* C7 witness: a job's response_time was set a second time, at a dispatch
\* later than its first one.
C7_Witness ==
    \E a \in Addrs :
        /\ first_dispatch[a] # -1
        /\ jobs[a].response_time # -1
        /\ jobs[a].response_time > first_dispatch[a] - jobs[a].arr_time

\* C8: when a job completes, its wait_time is the total time between its
\* arrival and its completion during which it was on no core, which is its
\* turnaround time minus its duration.
C8_WaitTime ==
    \A a \in Addrs :
        finish_time[a] # -1 =>
            /\ jobs[a].wait_time = waited[a]
            /\ jobs[a].wait_time = jobs[a].turnover_time - jobs[a].duration

\* C8 witness: a completed job that waited again after its first dispatch.
C8_Witness ==
    \E a \in Addrs :
        /\ finish_time[a] # -1
        /\ jobs[a].response_time = first_dispatch[a] - jobs[a].arr_time
        /\ jobs[a].wait_time > jobs[a].response_time

\* C9: a completed job's turnaround time is its completion time minus its
\* arrival time, and is at least its duration.
C9_Turnaround ==
    \A a \in Addrs :
        finish_time[a] # -1 =>
            /\ jobs[a].turnover_time = finish_time[a] - jobs[a].arr_time
            /\ jobs[a].turnover_time >= jobs[a].duration

\* C9 witness: a job that arrived after time 0 completed later than its
\* duration after its arrival.
C9_Witness ==
    \E a \in Addrs :
        /\ finish_time[a] # -1
        /\ jobs[a].arr_time > 0
        /\ jobs[a].turnover_time > jobs[a].duration

\* C10: the cores marked busy are exactly the cores some queued job is
\* assigned to, their number is the number of queued jobs with a core, and it
\* never exceeds the number of cores.
C10_BusyCores ==
    LET busy == {c \in Cores : core_arr[c] # 0}
    IN  /\ \A c \in Cores : core_arr[c] \in {0, 1}
        /\ \A c \in Cores :
             c \in busy <=> \E a \in RunningSet : jobs[a].core_id = c
        /\ \A a \in RunningSet : jobs[a].core_id \in Cores
        /\ Cardinality(busy) = Cardinality(RunningSet)
        /\ Cardinality(busy) <= numOfCores

\* C10 witness: a completion handed its core to a waiting job, the core is
\* marked busy again and another job still waits.
C10_Witness ==
    /\ last.op = "job_finished"
    /\ ret # -1
    /\ core_arr[last.core] = 1
    /\ \E a \in RunningSet : jobs[a].id = ret /\ jobs[a].core_id = last.core
    /\ WaitingSet # {}

\* C11: in every reachable state no two jobs are assigned to the same core,
\* and every assignment names one of the cores.
C11_OneJobPerCore ==
    \A a \in Addrs :
        jobs[a].core_id # -1 =>
            /\ jobs[a].core_id \in Cores
            /\ \A b \in Addrs \ {a} : jobs[b].core_id # jobs[a].core_id

\* C11 witness: with two cores both busy, a quantum expiry has just moved a
\* core from one job to another.
C11_Witness ==
    /\ numOfCores = 2
    /\ last.op = "quantum_expired"
    /\ ret # jobs[last.job].id
    /\ Cardinality(RunningSet) = 2
    /\ Cardinality({jobs[a].core_id : a \in RunningSet}) = 2
    /\ Waiting(last.job)

\* C12: after every handler call the queue holds exactly the jobs that have
\* arrived and whose completion has not been reported, each of them once.
C12_QueueMembership ==
    /\ Range(head) = {a \in Addrs : finish_time[a] = -1}
    /\ Cardinality(Range(head)) = Len(head)
    /\ Len(head) = numOfJobs

\* C12 witness: one job has completed and left the queue, and of the two that
\* are queued one was preempted after it had run.
C12_Witness ==
    /\ Len(head) = 2
    /\ \E a \in Addrs : finish_time[a] # -1 /\ a \notin Range(head)
    /\ \E b \in WaitingSet : executed[b] > 0
    /\ last.op = "new_job"
    /\ ret # -1

\* C13: an average function called when no job was ever submitted divides by
\* no zero and returns a defined value.
C13_NoDivisionByZero ==
    (avg.op # "none" /\ totalJobs = 0) =>
        /\ avg.count # 0
        /\ avg.result = "quotient"
        /\ ~crashed

\* The addresses of the job list, from p on, at most n of them.
RECURSIVE list_nodes(_, _, _)
list_nodes(m, p, n) ==
    IF n <= 0 \/ p = NULL THEN <<>>
    ELSE <<p>> \o list_nodes(m, m[p].next, n - 1)

\* The sum of one field over the first n records of the heap.
RECURSIVE heap_sum(_, _, _)
heap_sum(m, n, field) ==
    IF n <= 0 THEN 0 ELSE m[n][field] + heap_sum(m, n - 1, field)

\* The field an average function reads.
field_of(op) ==
    CASE op = "average_waiting_time" -> "wait_time"
      [] op = "average_turnaround_time" -> "turnover_time"
      [] OTHER -> "response_time"

\* C14: after any arrivals with strictly increasing ids the job list reachable
\* from job_ptr holds exactly the arrived jobs, one node each in arrival
\* order, no arrival has stopped the process, and an average is the sum of its
\* field over all of them divided by their number.
C14_Registry ==
    /\ ~(crashed /\ last.op = "new_job")
    /\ totalJobs = Len(jobs)
    /\ list_nodes(jobs, job_ptr, Len(jobs) + 1) = [i \in 1..Len(jobs) |-> i]
    /\ (avg.op # "none" /\ totalJobs > 0) =>
         /\ avg.count = Len(jobs)
         /\ avg.sum = heap_sum(jobs, Len(jobs), field_of(avg.op))
         /\ avg.result = "quotient"

\* C14 witness: the first arrival carries id 1, the process goes on, and
\* the job is queued and given a core without being in the job list.
C14_Witness ==
    /\ ~crashed
    /\ Len(jobs) = 1
    /\ jobs[1].id = 1
    /\ jobs[1].core_id = 0
    /\ job_ptr = NULL

\* C13 witness: with no job submitted an average function has divided 0 by 0.
C13_Witness ==
    /\ totalJobs = 0
    /\ avg.op = "average_waiting_time"
    /\ avg.count = 0
    /\ avg.result = "nan"

\* The part of C14 that holds: for the id sequences that start with 0 the job
\* list and the averages are as C14 says.
C14_FromZero == (jobs # <<>> /\ jobs[1].id = 0) => C14_Registry

\* Three jobs numbered 0, 2, 3 have run and their turnaround was averaged.
C14_FromZero_Witness ==
    /\ Len(jobs) = 3
    /\ jobs[1].id = 0
    /\ jobs[2].id = 2
    /\ jobs[3].id = 3
    /\ avg.op = "average_turnaround_time"
    /\ avg.sum > 3

\* What C15 requires of one step.
C15_Step ==
    NewJobStep =>
      LET n == jobs'[NewAddr]
          same(b, field) == jobs'[b][field] = jobs[b][field]
      IN  IF ret' = -1
          THEN /\ core_arr' = core_arr
               /\ \A b \in Addrs :
                    /\ \A f \in {"id", "arr_time", "duration", "priority",
                                 "wait_time", "start_wait", "response_time",
                                 "turnover_time", "turn", "core_id"} :
                         same(b, f)
                    /\ IF Running(b)
                       THEN jobs'[b].remaining_time =
                                jobs[b].duration - executed[b]
                       ELSE same(b, "remaining_time")
               /\ n.core_id = -1
               /\ n.wait_time = -1
               /\ n.start_wait = -1
               /\ n.response_time = -1
               /\ n.turnover_time = -1
               /\ n.remaining_time = n.duration
               /\ SelectSeq(head', LAMBDA b : b # NewAddr) = head
               /\ Len(head') = Len(head) + 1
          ELSE /\ ret' \in Cores
               /\ n.core_id = ret'
               /\ core_arr'[ret'] = 1
               /\ \A b \in Addrs : jobs'[b].core_id # ret'

\* C15: an arrival that returns -1 changes no core's state and no earlier
\* job's core, wait_time, start_wait or response_time: it only registers and
\* queues the new job, unassigned and with its timing fields unset, and
\* recomputes the remaining time of the running jobs.  An arrival that returns
\* a core index leaves the new job, and no other job, on that core.
C15_NoChange == [][C15_Step]_vars

\* C15 witness: under a preemptive scheme an arrival that outranks no running
\* job returned -1 while a running job had executed for some time.
C15_Witness ==
    /\ sch \in {"PSJF", "PPRI"}
    /\ last.op = "new_job"
    /\ ret = -1
    /\ Waiting(last.job)
    /\ \E b \in RunningSet :
         executed[b] > 0 /\ jobs[b].remaining_time < jobs[b].duration

\* What C17 requires of one step.
C17_Step ==
    sch \in {"PSJF", "PPRI"} =>
      \A b \in Addrs :
        /\ (NewJobStep /\ Running(b) /\ jobs'[b].core_id = -1) =>
             IF executed[b] = 0
             THEN /\ jobs'[b].remaining_time = jobs'[b].duration
                  /\ jobs'[b].response_time = -1
                  /\ jobs'[b].wait_time = -1
                  /\ jobs'[b].start_wait = -1
             ELSE /\ jobs'[b].remaining_time < jobs'[b].duration
                  /\ jobs'[b].response_time = jobs[b].response_time
                  /\ jobs'[b].wait_time = jobs[b].wait_time
                  /\ jobs'[b].start_wait = time
        /\ (/\ Waiting(b)
            /\ first_dispatch[b] # -1
            /\ jobs[b].response_time = -1
            /\ jobs'[b].core_id # -1) =>
             /\ jobs'[b].response_time = time - jobs[b].arr_time
             /\ jobs'[b].wait_time = time - jobs[b].arr_time
             /\ jobs'[b].start_wait = -1

\* C17: under PSJF and PPRI a job that loses its core to an arrival before it
\* has executed any time unit has its response_time, wait_time and start_wait
\* unset, and its next dispatch sets response_time and wait_time to the time
\* of that dispatch minus its arrival time; a job that loses its core after
\* it has executed keeps its response_time and wait_time, and its start_wait
\* is the time of the preemption.
C17_ZeroRunReset == [][C17_Step]_vars

\* C17 witness: a job that was dispatched, preempted before it ran and
\* dispatched again is on a core, with the wait and response time of its
\* second dispatch.
C17_Witness ==
    /\ sch \in {"PSJF", "PPRI"}
    /\ \E b \in RunningSet :
         /\ first_dispatch[b] # -1
         /\ first_dispatch[b] < time
         /\ executed[b] = 0
         /\ jobs[b].response_time = time - jobs[b].arr_time
         /\ jobs[b].wait_time = jobs[b].response_time

\* The time a waiting job started to wait: its last quantum expiry, or its
\* arrival when it has not been on a core.
wait_since(j) == IF j.start_wait # -1 THEN j.start_wait ELSE j.arr_time

\* What C18 requires of one step.
C18_Step ==
    sch = "RR" =>
      /\ \A i \in 1..Len(head') : jobs'[head'[i]].turn = i - 1
      /\ QuantumStep => head'[Len(head')] = last'.job
      /\ NewJobStep => head'[Len(head')] = NewAddr
      /\ \A b \in WaitingSet :
           jobs'[b].core_id # -1 =>
             /\ b = WaitingSeq[1]
             /\ \A w \in WaitingSet :
                  wait_since(jobs[b]) <= wait_since(jobs[w])

\* C18: under RR a job whose quantum expired is requeued behind every other
\* queued job; after every handler call each queued job's turn is its queue
\* rank, so the turns are 0..n-1 without duplicates; an arrival joins the
\* queue at its end; and the waiting job that is dispatched is the first
\* waiting job of the queue, and no other job has been waiting for longer.
C18_RoundRobin == [][C18_Step]_vars

\* C18 witness: a quantum expiry dispatched the job that had waited longest
\* while a job that arrived later and the expired job wait behind it.
C18_Witness ==
    /\ sch = "RR"
    /\ last.op = "quantum_expired"
    /\ head[Len(head)] = last.job
    /\ jobs[last.job].turn = Len(head) - 1
    /\ \E b \in RunningSet, w \in WaitingSet :
         /\ jobs[b].id = ret
         /\ first_dispatch[b] = time
         /\ w # last.job
         /\ jobs[w].arr_time > jobs[b].arr_time

\* C19: after every handler call, under every scheme, no core is idle while
\* a queued job is on no core.
C19_WorkConserving ==
    (\E a \in Addrs : Waiting(a)) =>
        \A c \in Cores :
            /\ core_arr[c] # 0
            /\ \E b \in Addrs : Running(b) /\ jobs[b].core_id = c

\* C19 witness: with two cores a completion on one of them dispatched a
\* waiting job that stands behind the other core's running job in the queue,
\* and a job still waits.
C19_Witness ==
    /\ numOfCores = 2
    /\ last.op \in {"job_finished", "quantum_expired"}
    /\ ret # -1
    /\ Len(head) = 3
    /\ jobs[head[1]].core_id \notin {-1, last.core}
    /\ \E b \in RunningSet : jobs[b].id = ret /\ jobs[b].core_id = last.core
    /\ \E w \in Addrs : Waiting(w)

\* C20: under PSJF and PPRI, after every handler call the running jobs hold
\* the first queue positions, as many as there are busy cores, and every
\* running job compares ahead of every waiting job on the keys the records
\* hold (remaining_time as of the last arrival, or priority; ties by id).
C20_RunningFirst ==
    sch \in {"PSJF", "PPRI"} =>
        LET k == Cardinality({c \in Cores : core_arr[c] # 0})
        IN  /\ \A i \in 1..Len(head) :
                 (jobs[head[i]].core_id # -1) <=> (i <= k)
            /\ \A r \in RunningSet, w \in WaitingSet :
                 comparer(sch, jobs[r], jobs[w]) < 0

\* C20 witness: under PSJF a job that has run is on a core with less
\* remaining time than its duration, ahead of a waiting job whose duration is
\* smaller than the running job's.
C20_Witness ==
    /\ sch = "PSJF"
    /\ \E r \in RunningSet, w \in WaitingSet :
         /\ jobs[r].remaining_time < jobs[r].duration
         /\ jobs[w].duration < jobs[r].duration
         /\ jobs[w].remaining_time > jobs[r].remaining_time

\* The sign of a comparer's result.
sign(x) == IF x < 0 THEN -1 ELSE IF x > 0 THEN 1 ELSE 0

\* No two queued jobs compare equal, and the comparer orders each pair the
\* same way from both sides: the queue's order does not depend on where the
\* queue puts elements that compare equal.
no_ties ==
    \A a \in Range(head) : \A b \in Range(head) \ {a} :
        /\ comparer(sch, jobs[a], jobs[b]) # 0
        /\ sign(comparer(sch, jobs[a], jobs[b])) =
               -sign(comparer(sch, jobs[b], jobs[a]))

\* What C16 requires of one step.
C16_Step ==
    /\ NewJobStep =>
         \E n \in {jobs'[NewAddr]} :
           \E r \in {scheduler_new_job(n.id, n.arr_time, n.duration,
                                       n.priority)} :
             <<jobs', job_ptr', head', core_arr', ret'>> =
                 <<r.jobs, r.job_ptr, r.head, r.core_arr, r.ret>>
    /\ FinishedStep =>
         \E r \in {scheduler_job_finished(last'.core, jobs[last'.job].id,
                                          time)} :
             <<jobs', job_ptr', head', core_arr', ret'>> =
                 <<r.jobs, job_ptr, r.head, r.core_arr, r.ret>>
    /\ QuantumStep =>
         \E r \in {scheduler_quantum_expired(last'.core, time)} :
             <<jobs', job_ptr', head', core_arr', ret'>> =
                 <<r.jobs, job_ptr, r.head, r.core_arr, r.ret>>
    /\ no_ties'

====
